---- MODULE Spec2Model ----
(***************************************************************************)
(* Model of flow/flowinst/action.go: the FlowAction (Action Runner) that   *)
(* starts, resumes and restarts flow instances and drives their step loop  *)
(* in a goroutine, reporting to an action.ResultHandler.                   *)
(*                                                                         *)
(* The Instance, the flow provider, the id generator and the state         *)
(* recorder are collaborators whose code is not part of action.go; they    *)
(* are modelled from their documented contract.                            *)
(***************************************************************************)
EXTENDS Integers, Sequences, FiniteSets, TLC

\* ------------------------------------------------------------------ bounds
\* Number of Run invocations in one behaviour.
MaxRuns == 2
\* Cap on the steps of one invocation that the model follows (the default
\* budget of 65535 steps is not followed to its end).
MaxSteps == 2
\* Number of steps the terminating flow definitions need.
FlowSteps == 2

\* --------------------------------------------------------------- constants
AoStart == 0
AoResume == 1
AoRestart == 2

\* int(^uint16(0))
DefaultMaxStepCount == 65535

\* Status is an ordered enum; the loop tests Status() < StatusCompleted.
StatusNotStarted == 0
StatusActive == 1
StatusCompleted == 2
StatusFailed == 3

\* The nil *Instance / nil handler reference.
Nil == 0

\* The code of the identifier result: handler.HandleResult(200, ...)
IDResultCode == 200
\* The code the modelled flows reply with.
ReplyCode == 201

\* ------------------------------------------------------------ collaborators
URIs == {"order-flow", "bad-flow", "missing-flow"}

\* flowdef.Provider.GetFlow: the definition of a URI, or none (found = FALSE).
\* order-flow ends after FlowSteps steps and replies to its trigger in each
\* step; bad-flow never ends: each of its steps reports more work, unless it
\* faults.
GetFlow(uri) ==
    CASE uri = "order-flow" ->
            [found |-> TRUE, steps |-> FlowSteps, endless |-> FALSE,
             faulty |-> FALSE, replies |-> TRUE]
      [] uri = "bad-flow" ->
            [found |-> TRUE, steps |-> 0, endless |-> TRUE,
             faulty |-> TRUE, replies |-> FALSE]
      [] OTHER ->
            [found |-> FALSE, steps |-> 0, endless |-> FALSE,
             faulty |-> FALSE, replies |-> FALSE]

\* The triggers that call Run: each has the attribute bindings it puts in the
\* execution context (trigger.FromContext) and the exec options, if any, it
\* puts in its run options.
NoAttrs == [n \in {} |-> 0]
Triggers ==
    { [attrs |-> [n \in {"a"} |-> 1], ExecOptions |-> FALSE],
      [attrs |-> [n \in {"a", "b"} |-> 2], ExecOptions |-> TRUE] }

\* Instance.UpdateAttrs: new values overwrite, unseen names are kept.
MergeAttrs(old, new) ==
    [n \in (DOMAIN old) \cup (DOMAIN new) |->
        IF n \in DOMAIN new THEN new[n] ELSE old[n]]

\* NewFlowInstance(instanceID, uri, flow)
NewFlowInstance(instanceID, uri, flow) ==
    [id |-> instanceID, flowURI |-> uri, flow |-> flow,
     status |-> StatusNotStarted, remaining |-> flow.steps,
     attrs |-> NoAttrs, replyHandler |-> Nil, execOptions |-> FALSE,
     calls |-> <<"NewFlowInstance">>]

\* Instance.Start(attrs): seeds the attributes, the instance becomes active.
InstanceStart(inst, attrs) ==
    [inst EXCEPT !.attrs = attrs, !.status = StatusActive,
                 !.calls = Append(@, "Start")]

\* Instance.UpdateAttrs(attrs)
InstanceUpdateAttrs(inst, attrs) ==
    [inst EXCEPT !.attrs = MergeAttrs(inst.attrs, attrs),
                 !.calls = Append(@, "UpdateAttrs")]

\* Instance.Restart(newID, provider): new identity, definition re-attached.
InstanceRestart(inst, newID) ==
    [inst EXCEPT !.id = newID, !.flow = GetFlow(inst.flowURI),
                 !.status = StatusActive, !.calls = Append(@, "Restart")]

\* applyExecOptions(instance, execOptions)
applyExecOptions(inst) ==
    [inst EXCEPT !.execOptions = TRUE, !.calls = Append(@, "applyExecOptions")]

\* Instance.SetReplyHandler(&SimpleReplyHandler{resultHandler: handler})
SetReplyHandler(inst, handler) ==
    [inst EXCEPT !.replyHandler = handler,
                 !.calls = Append(@, "SetReplyHandler")]

\* ---------------------------------------------------------------- the state
VARIABLES
    fa,         \* the FlowAction: stateRecorder (present or not), options
    requested,  \* what NewFlowAction was given (kept to compare against)
    nextID,     \* idGenerator: the next identifier it hands out
    instances,  \* the heap of *Instance values, by pointer
    inv,        \* the Run invocations so far, in call order
    handled,    \* per invocation: the calls its ResultHandler received
    process     \* "running", or "crashed" after an unrecovered panic

vars == <<fa, requested, nextID, instances, inv, handled, process>>

\* -------------------------------------------------------------- construction
\* options == nil: options = &ActionOptions{Record: true}
NilActionOptions == [given |-> FALSE, MaxStepCount |-> 0, Record |-> FALSE]

ActionOptionsGiven ==
    [given : {TRUE}, MaxStepCount : {0, 1}, Record : BOOLEAN]

DefaultOptions(options) ==
    IF ~options.given
    THEN [MaxStepCount |-> 0, Record |-> TRUE]
    ELSE [MaxStepCount |-> options.MaxStepCount, Record |-> options.Record]

\* Variant: only a count of zero is taken as unset.
FixMaxStepCountZeroOnly(n) == IF n = 0 THEN DefaultMaxStepCount ELSE n

\* if options.MaxStepCount < 1 { options.MaxStepCount = int(^uint16(0)) }
FixMaxStepCount(n) == IF n < 1 THEN DefaultMaxStepCount ELSE n

\* Variant: the recorder is not looked at.
EffectiveRecordAsRequested(stateRecorder, record) == record

\* options.Record = (stateRecorder != nil) && options.Record
EffectiveRecord(stateRecorder, record) == stateRecorder /\ record

NewFlowAction(stateRecorder, options) ==
    LET o == DefaultOptions(options)
    IN  [stateRecorder |-> stateRecorder,
         options |-> [MaxStepCount |-> FixMaxStepCount(o.MaxStepCount),
                      Record |-> EffectiveRecord(stateRecorder, o.Record)]]

Init ==
    /\ \E stateRecorder \in BOOLEAN :
       \E options \in {NilActionOptions} \cup ActionOptionsGiven :
          /\ fa = NewFlowAction(stateRecorder, options)
          /\ requested = [stateRecorder |-> stateRecorder, options |-> options]
    /\ nextID = 1
    /\ instances = <<>>
    /\ inv = <<>>
    /\ handled = <<>>
    /\ process = "running"

\* The construction on its own, over a wider range of step counts: the
\* FlowAction is made anew by a call of NewFlowAction.
MaxCount == 40
StepCountsGiven ==
    (-MaxCount .. MaxCount) \cup
    {DefaultMaxStepCount - 1, DefaultMaxStepCount, DefaultMaxStepCount + 1}

Construct(stateRecorder, options) ==
    /\ fa' = NewFlowAction(stateRecorder, options)
    /\ requested' = [stateRecorder |-> stateRecorder, options |-> options]
    /\ UNCHANGED <<nextID, instances, inv, handled, process>>

NextConstruct ==
    \E stateRecorder \in BOOLEAN :
    \E options \in {NilActionOptions} \cup
                   [given : {TRUE}, MaxStepCount : StepCountsGiven,
                    Record : BOOLEAN] :
        Construct(stateRecorder, options)

SpecConstruct == Init /\ [][NextConstruct]_vars

\* ------------------------------------------------------------ result handler
NoData == [ID |-> 0, reply |-> 0]

\* IDResponse{ID: instance.ID()}
IDResponse(id) == [ID |-> id, reply |-> 0]

\* action.ResultHandler.HandleResult(code, data, err) as the handler sees it
HandleResult(code, data, err) ==
    [call |-> "HandleResult", code |-> code, data |-> data, err |-> err]

\* action.ResultHandler.Done()
HandlerDone == [call |-> "Done", code |-> 0, data |-> NoData, err |-> "nil"]

\* Variant: the bridge forwards the code and the error, not the data.
ReplyWithoutData(replyCode, replyData, err) == HandleResult(replyCode, NoData, err)

\* SimpleReplyHandler.Reply: pass-through to the ResultHandler
Reply(replyCode, replyData, err) == HandleResult(replyCode, replyData, err)

\* ------------------------------------------------------------ Run, in order
\* RunOptions as passed by the caller (ok: options is a *RunOptions).
RunOptions ==
    [Op : {AoStart, AoResume, AoRestart}, ReturnID : BOOLEAN,
     InitialState : {Nil} \cup (1..MaxRuns), ExecOptions : BOOLEAN]

NoInstance == NewFlowInstance(0, "", GetFlow(""))

\* Variant: the nil check on the flow is left out.
FlowMissingUnchecked(flow) == FALSE

\* if flow == nil { return err }
FlowMissing(flow) == ~flow.found

\* Variant: Start hands out the Instance it made last, when there is one.
NewInstancePtrReused ==
    IF instances = <<>> THEN Len(instances) + 1 ELSE Len(instances)

\* instance = NewFlowInstance(...): a newly allocated Instance.
NewInstancePtr == Len(instances) + 1

\* Variant: Restart leaves the instance the identifier it has.
RestartInstanceIDKept(inst) == inst.id

\* instanceID := fa.idGenerator.NextAsString() of the Restart case: the
\* identifier the instance inst is restarted under.
RestartInstanceID(inst) == nextID

\* The switch on op: which instance Run works on, or how it ends early.
\* ids is the number of identifiers taken from the generator.
Acquire(op, ok, ao, uri) ==
    CASE op = AoStart ->
            LET flow == GetFlow(uri) IN
            IF FlowMissing(flow)
            THEN [outcome |-> "error", err |-> "Flow not found", ids |-> 0,
                  ptr |-> Nil, inst |-> NoInstance]
            ELSE [outcome |-> "ok", err |-> "", ids |-> 1,
                  ptr |-> NewInstancePtr,
                  inst |-> NewFlowInstance(nextID, uri, flow)]
      [] op = AoResume ->
            IF ~ok
            THEN [outcome |-> "error", err |-> "resume options not provided",
                  ids |-> 0, ptr |-> Nil, inst |-> NoInstance]
            ELSE IF ao.InitialState = Nil
            THEN \* instance.ID() on the nil *Instance
                 [outcome |-> "panic", err |-> "", ids |-> 0,
                  ptr |-> Nil, inst |-> NoInstance]
            ELSE [outcome |-> "ok", err |-> "", ids |-> 0,
                  ptr |-> ao.InitialState,
                  inst |-> [instances[ao.InitialState] EXCEPT
                               !.calls = <<"InitialState">>]]
      [] op = AoRestart ->
            IF ~ok
            THEN [outcome |-> "error", err |-> "restart options not provided",
                  ids |-> 0, ptr |-> Nil, inst |-> NoInstance]
            ELSE IF ao.InitialState = Nil
            THEN \* instance.Restart(...) on the nil *Instance
                 [outcome |-> "panic", err |-> "", ids |-> 1,
                  ptr |-> Nil, inst |-> NoInstance]
            ELSE [outcome |-> "ok", err |-> "", ids |-> 1,
                  ptr |-> ao.InitialState,
                  inst |-> InstanceRestart(
                              [instances[ao.InitialState] EXCEPT
                                  !.calls = <<"InitialState">>],
                              RestartInstanceID(instances[ao.InitialState]))]

\* Variant: the attributes always go through Instance.Start.
SetupAlwaysStart(inst, op, ok, ao, attrs, handler) ==
    LET i1 == IF ok /\ ao.ExecOptions THEN applyExecOptions(inst) ELSE inst
    IN  SetReplyHandler(InstanceStart(i1, attrs), handler)

\* Variant: the attributes are applied before the exec options.
SetupAttrsFirst(inst, op, ok, ao, attrs, handler) ==
    LET i1 == IF op = AoStart
              THEN InstanceStart(inst, attrs)
              ELSE InstanceUpdateAttrs(inst, attrs)
        i2 == IF ok /\ ao.ExecOptions THEN applyExecOptions(i1) ELSE i1
    IN  SetReplyHandler(i2, handler)

\* Lines 116-143: exec options, trigger attributes, reply handler.
Setup(inst, op, ok, ao, attrs, handler) ==
    LET i1 == IF ok /\ ao.ExecOptions THEN applyExecOptions(inst) ELSE inst
        i2 == IF op = AoStart
              THEN InstanceStart(i1, attrs)
              ELSE InstanceUpdateAttrs(i1, attrs)
    IN  SetReplyHandler(i2, handler)

\* Variant: handler.Done() is called where it stands, not deferred.
SpawnTaskDoneFirst ==
    [pc |-> "loop", trace |-> <<"Done">>, handled |-> <<HandlerDone>>]

\* Variant: the body is called in Run, without the go statement.
SpawnTaskInline ==
    [pc |-> "finished", trace |-> <<"DoStep", "Done">>,
     handled |-> <<HandlerDone>>]

\* What the go statement starts with: the loop still to run, Done deferred.
SpawnTask == [pc |-> "loop", trace |-> <<>>, handled |-> <<>>]

\* Variant: stepCount is a variable the invocations share, not a local of
\* Run: an invocation goes on from the count of the one before.
StepCountShared == IF inv = <<>> THEN 0 ELSE inv[Len(inv)].stepCount

\* stepCount := 0
StepCountInit == 0

\* The record of one invocation: the caller's side and the task's locals.
\* uri is kept for Start, the one operation that reads it. overlapped: the
\* Resume or Restart was issued for an instance whose step loop was running.
\* exitID is the instance.ID() the task reads after its loop.
Invocation(op, ok, ao, uri, ptr, result, err, callerPc, task, setup) ==
    [op |-> op, ok |-> ok,
     uri |-> IF op = AoStart THEN uri ELSE "",
     overlapped |-> op # AoStart /\ ptr # Nil /\
                    \E j \in DOMAIN inv : inv[j].instance = ptr /\ inv[j].pc = "loop",
     exitID |-> 0,
     returnID |-> ok /\ ao.ReturnID,
     execOptions |-> ok /\ ao.ExecOptions,
     initialState |-> IF ok /\ op # AoStart THEN ao.InitialState ELSE Nil,
     instance |-> ptr,
     result |-> result, err |-> err, callerPc |-> callerPc,
     pc |-> task.pc, panicking |-> FALSE,
     stepCount |-> StepCountInit, hasWork |-> TRUE,
     trace |-> task.trace, setup |-> setup]

NoTask == [pc |-> "none", trace |-> <<>>, handled |-> <<>>]

\* Run(context, uri, options, handler), called by trigger: the context holds
\* the trigger's attributes, options is ao when ok and no *RunOptions
\* otherwise, handler is a handler of its own for each invocation. Run
\* returns right after the go statement, so both are one step.
Run(uri, ok, ao, trigger) ==
    /\ process = "running"
    /\ Len(inv) < MaxRuns
    /\ ao.ExecOptions = trigger.ExecOptions
    /\ ok => (ao.InitialState \in {Nil} \cup DOMAIN instances)
    /\ LET op == IF ok THEN ao.Op ELSE AoStart
           handler == Len(inv) + 1
           got == Acquire(op, ok, ao, uri)
       IN  /\ nextID' = nextID + got.ids
           /\ CASE got.outcome = "error" ->
                    /\ inv' = Append(inv, Invocation(op, ok, ao, uri, Nil, "error",
                                  got.err, "returned", NoTask, <<>>))
                    /\ handled' = Append(handled, <<>>)
                    /\ UNCHANGED <<instances, process>>
                [] got.outcome = "panic" ->
                    /\ inv' = Append(inv, Invocation(op, ok, ao, uri, Nil, "panic",
                                  "", "panicked", NoTask, <<>>))
                    /\ handled' = Append(handled, <<>>)
                    /\ \E recovered \in BOOLEAN :
                          process' = IF recovered THEN "running" ELSE "crashed"
                    /\ UNCHANGED instances
                [] OTHER ->
                    LET inst == Setup(got.inst, op, ok, ao, trigger.attrs, handler)
                        task == SpawnTask
                    IN  /\ instances' =
                              IF got.ptr \in DOMAIN instances
                              THEN [instances EXCEPT ![got.ptr] = inst]
                              ELSE Append(instances, inst)
                        /\ inv' = Append(inv, Invocation(op, ok, ao, uri, got.ptr,
                                      "nil", "", "returned", task,
                                      Append(inst.calls, "go")))
                        /\ handled' = Append(handled, task.handled)
                        /\ UNCHANGED process
    /\ UNCHANGED <<fa, requested>>

\* ------------------------------------------------------- Instance.DoStep
Max(a, b) == IF a > b THEN a ELSE b

\* Number of replies each step of a replying flow sends to its trigger.
RepliesPerStep == 1

\* The possible results of one DoStep on inst: the state the instance is
\* left in, whether more work remains, whether the step faulted (a panic).
\* raced: another step loop is running on the same instance, which is a data
\* race: the step may then also be lost, or find all the work done.
DoStepOutcomes(inst, raced) ==
    LET r == IF inst.remaining > 0 THEN inst.remaining - 1 ELSE 0
        normal ==
            IF inst.flow.endless
            THEN {[status |-> inst.status, remaining |-> inst.remaining,
                   hasWork |-> TRUE, fault |-> FALSE]}
            ELSE {[status |-> IF r = 0 THEN Max(inst.status, StatusCompleted)
                                       ELSE inst.status,
                   remaining |-> r, hasWork |-> r > 0, fault |-> FALSE]}
        faults ==
            IF inst.flow.faulty
            THEN {[status |-> inst.status, remaining |-> inst.remaining,
                   hasWork |-> FALSE, fault |-> TRUE]}
            ELSE {}
        races ==
            IF raced
            THEN {[status |-> inst.status, remaining |-> inst.remaining,
                   hasWork |-> TRUE, fault |-> FALSE],
                  [status |-> Max(inst.status, StatusCompleted),
                   remaining |-> 0, hasWork |-> FALSE, fault |-> FALSE]}
            ELSE {}
    IN  normal \cup faults \cup races

\* The replies a step sends through the instance's reply handler.
StepReplies(inst) ==
    IF inst.flow.replies /\ inst.replyHandler # Nil
    THEN [k \in 1..RepliesPerStep |->
             Reply(ReplyCode, [ID |-> 0, reply |-> k], "nil")]
    ELSE <<>>

\* ------------------------------------------------------ the spawned task
\* Variant: the loop does not test the step budget.
LoopCondNoBudget(r, inst) ==
    /\ r.hasWork
    /\ inst.status < StatusCompleted

\* Variant: the budget test lets one step too many through.
LoopCondOffByOne(r, inst) ==
    /\ r.hasWork
    /\ inst.status < StatusCompleted
    /\ r.stepCount <= fa.options.MaxStepCount

\* Variant: the loop does not test the status of the instance.
LoopCondNoStatus(r, inst) ==
    /\ r.hasWork
    /\ r.stepCount < fa.options.MaxStepCount

\* for hasWork && instance.Status() < StatusCompleted &&
\*     stepCount < fa.options.MaxStepCount
LoopCond(r, inst) ==
    /\ r.hasWork
    /\ inst.status < StatusCompleted
    /\ r.stepCount < fa.options.MaxStepCount

\* Variant: Done is called at the end of the body, so a panic skips it.
OnPanicSkipsDone(r) == [r EXCEPT !.panicking = TRUE, !.pc = "finished"]

\* A panic in the task body: the deferred calls run, then the panic
\* leaves the goroutine.
OnPanic(r) == [r EXCEPT !.panicking = TRUE, !.pc = "deferred"]

\* Variant: the two recorder calls in the other order.
RecordCallsSwapped == <<"RecordStep", "RecordSnapshot">>

\* The calls made after each step when fa.options.Record is set.
RecordCalls == <<"RecordSnapshot", "RecordStep">>

\* if fa.options.Record { RecordSnapshot(instance); RecordStep(instance) }
\* The ways the recording of inst after one step can go: the calls made, and
\* whether the last of them panicked (a call on a nil recorder, or a recorder
\* that faults on the state of an instance of a faulty flow).
Recordings(inst) ==
    IF ~fa.options.Record
    THEN {[calls |-> <<>>, fault |-> FALSE]}
    ELSE IF ~fa.stateRecorder
    THEN {[calls |-> <<>>, fault |-> TRUE]}
    ELSE {[calls |-> RecordCalls, fault |-> FALSE]} \cup
         IF inst.flow.faulty
         THEN {[calls |-> SubSeq(RecordCalls, 1, 1), fault |-> TRUE]}
         ELSE {}

Running(i) ==
    /\ process = "running"
    /\ i \in DOMAIN inv

\* Variant: the identifier result is sent whether asked for or not.
AfterLoopAlwaysID(r, inst) ==
    IF ~r.ok
    THEN [r |-> OnPanic(r), sent |-> <<>>]
    ELSE [r |-> [r EXCEPT !.pc = "deferred", !.exitID = inst.id,
                          !.trace = Append(@, "HandleResult")],
          sent |-> <<HandleResult(IDResultCode, IDResponse(inst.id), "nil")>>]

\* After the loop: if ao.ReturnID { handler.HandleResult(200, &IDResponse{
\* ID: instance.ID()}, nil) }, and the body ends. ao is nil when the options
\* were not a *RunOptions: the read of ao.ReturnID panics then.
\* Gives the task's record and what it sent to its handler.
AfterLoop(r, inst) ==
    IF ~r.ok
    THEN [r |-> OnPanic(r), sent |-> <<>>]
    ELSE IF r.returnID
    THEN [r |-> [r EXCEPT !.pc = "deferred", !.exitID = inst.id,
                          !.trace = Append(@, "HandleResult")],
          sent |-> <<HandleResult(IDResultCode, IDResponse(inst.id), "nil")>>]
    ELSE [r |-> [r EXCEPT !.pc = "deferred", !.exitID = inst.id],
          sent |-> <<>>]

\* The step loops running on the instance at ptr, other than task i's.
OtherLoops(ptr, i) ==
    {j \in DOMAIN inv : j # i /\ inv[j].instance = ptr /\ inv[j].pc = "loop"}

\* The handlers a step of task i may find as the reply handler of the
\* instance at ptr: the one set last; when another loop runs on the instance
\* the read races with SetReplyHandler and may give any handler set on it.
ReplyHandlers(ptr, i) ==
    IF OtherLoops(ptr, i) = {}
    THEN {instances[ptr].replyHandler}
    ELSE {j \in DOMAIN inv : inv[j].instance = ptr /\ inv[j].result = "nil"}

\* One iteration: the loop test holds, stepCount++, hasWork = DoStep()
\* returns or panics, then the recorder calls.
Step(i) ==
    /\ Running(i)
    /\ inv[i].pc = "loop"
    /\ LET r == inv[i]
           inst == instances[r.instance]
       IN  /\ LoopCond(r, inst)
           /\ r.stepCount < MaxSteps
           /\ \E out \in DoStepOutcomes(inst, OtherLoops(r.instance, i) # {}) :
              \E rec \in (IF out.fault THEN {[calls |-> <<>>, fault |-> TRUE]}
                          ELSE Recordings(inst)) :
              \E h \in ReplyHandlers(r.instance, i) :
                 /\ instances' = [instances EXCEPT ![r.instance] =
                        [inst EXCEPT !.status = out.status,
                                     !.remaining = out.remaining]]
                 /\ handled' = IF StepReplies(inst) = <<>> THEN handled
                               ELSE [handled EXCEPT ![h] = @ \o StepReplies(inst)]
                 /\ inv' = [inv EXCEPT ![i] =
                        LET r1 == [r EXCEPT !.stepCount = @ + 1,
                                            !.trace = (@ \o <<"DoStep">>) \o rec.calls]
                        IN  IF rec.fault THEN OnPanic(r1)
                            ELSE [r1 EXCEPT !.hasWork = out.hasWork]]
    /\ UNCHANGED <<fa, requested, nextID, process>>

\* The loop test fails: the rest of the body runs.
LoopExit(i) ==
    /\ Running(i)
    /\ inv[i].pc = "loop"
    /\ LET r == inv[i]
           inst == instances[r.instance]
       IN  /\ ~LoopCond(r, inst)
           /\ inv' = [inv EXCEPT ![i] = AfterLoop(r, inst).r]
           /\ handled' = [handled EXCEPT ![i] = @ \o AfterLoop(r, inst).sent]
    /\ UNCHANGED <<fa, requested, nextID, instances, process>>

\* defer handler.Done(): runs when the task body returns or panics; a
\* panic then leaves the goroutine and ends the process.
Done(i) ==
    /\ Running(i)
    /\ inv[i].pc = "deferred"
    /\ inv' = [inv EXCEPT ![i].pc = "finished", ![i].trace = Append(@, "Done")]
    /\ handled' = [handled EXCEPT ![i] = Append(@, HandlerDone)]
    /\ process' = IF inv[i].panicking THEN "crashed" ELSE "running"
    /\ UNCHANGED <<fa, requested, nextID, instances>>

\* --------------------------------------------------------- specification
Next ==
    \/ \E uri \in URIs, ok \in BOOLEAN, ao \in RunOptions, trigger \in Triggers :
          Run(uri, ok, ao, trigger)
    \/ \E i \in 1..MaxRuns : Step(i)
    \/ \E i \in 1..MaxRuns : LoopExit(i)
    \/ \E i \in 1..MaxRuns : Done(i)

Spec == Init /\ [][Next]_vars

\* ================================================================ claims
CountIn(seq, x) == Cardinality({k \in DOMAIN seq : seq[k] = x})

\* The DoStep calls invocation i has made.
Steps(i) == CountIn(inv[i].trace, "DoStep")

\* The Done() calls the handler of invocation i has received.
DoneCalls(i) ==
    Cardinality({k \in DOMAIN handled[i] : handled[i][k].call = "Done"})

\* The recorder calls invocation i has made.
RecorderCalls(i) ==
    CountIn(inv[i].trace, "RecordSnapshot") + CountIn(inv[i].trace, "RecordStep")

\* Invocation i has left its loop through the loop test.
LoopExited(i) == inv[i].pc \in {"deferred", "finished"} /\ ~inv[i].panicking

\* C1: for every invocation whose Run returned no error, the handler's
\* Done() is called at most once, it has been called exactly once when the
\* task has ended, it is never called while the step loop is still running,
\* and it is the last thing the task does: no DoStep or recorder call of
\* the invocation comes after it.
C1_DoneOnceAfterLoop ==
    \A i \in DOMAIN inv : inv[i].result = "nil" =>
        /\ DoneCalls(i) = (IF inv[i].pc = "finished" THEN 1 ELSE 0)
        /\ CountIn(inv[i].trace, "Done") = DoneCalls(i)
        /\ \A k \in DOMAIN inv[i].trace :
              inv[i].trace[k] = "Done" => k = Len(inv[i].trace)

\* One invocation left its loop on the step budget and another because no
\* work was left, and each has had its one Done().
C1_Witness ==
    /\ Len(inv) = 2
    /\ \A i \in {1, 2} : LoopExited(i) /\ inv[i].pc = "finished"
                         /\ DoneCalls(i) = 1 /\ Steps(i) >= 1
    /\ inv[1].hasWork /\ inv[1].stepCount = fa.options.MaxStepCount
    /\ ~inv[2].hasWork

\* C2: when the FlowAction was configured with maxStepCount = N > 0, no
\* invocation makes more than N calls of DoStep, whatever its instance does;
\* the count is the invocation's own.
C2_StepBudget ==
    (requested.options.given /\ requested.options.MaxStepCount > 0) =>
        \A i \in DOMAIN inv :
            /\ Steps(i) <= requested.options.MaxStepCount
            /\ inv[i].stepCount = Steps(i)

\* An instance that always reports more work was started and then resumed
\* under N = 1: each invocation made its one step and left the loop with
\* work remaining and the status not terminal.
C2_Witness ==
    /\ requested.options.given /\ requested.options.MaxStepCount = 1
    /\ Len(inv) = 2
    /\ inv[1].op = AoStart /\ inv[2].op = AoResume /\ inv[2].instance = inv[1].instance
    /\ \A i \in {1, 2} : LoopExited(i) /\ Steps(i) = 1 /\ inv[i].hasWork
    /\ instances[inv[1].instance].flow.endless
    /\ instances[inv[1].instance].status < StatusCompleted

\* Run was called with op = Start and a URI the provider has no flow for.
StartOfMissingFlow(i) ==
    inv[i].op = AoStart /\ ~GetFlow(inv[i].uri).found

\* C3: a Start for a URI the provider has no definition for returns an
\* error from Run; no task is spawned, no DoStep or recorder call is made
\* and the handler receives neither HandleResult nor Done().
C3_FlowNotFound ==
    \A i \in DOMAIN inv : StartOfMissingFlow(i) =>
        /\ inv[i].result = "error"
        /\ inv[i].pc = "none"
        /\ inv[i].instance = Nil
        /\ inv[i].trace = <<>>
        /\ handled[i] = <<>>

\* A Start of a missing flow has failed while another invocation has run
\* to its end.
C3_Witness ==
    /\ Len(inv) = 2
    /\ StartOfMissingFlow(2) /\ inv[2].result = "error"
    /\ inv[1].pc = "finished" /\ Steps(1) >= 1

\* C4: a Resume or Restart whose run options carry no InitialState returns
\* an error from Run, spawns no task and makes no handler call.
C4_MissingInitialState ==
    \A i \in DOMAIN inv :
        (inv[i].ok /\ inv[i].op \in {AoResume, AoRestart}
                   /\ inv[i].initialState = Nil) =>
            /\ inv[i].result = "error"
            /\ inv[i].pc = "none"
            /\ handled[i] = <<>>

\* Whether recording was asked for: Record of the options given, which is
\* true when no options were given.
RecordRequested ==
    IF requested.options.given THEN requested.options.Record ELSE TRUE

\* C5: the record flag in effect is "requested and a recorder was supplied".
\* When it is false no invocation makes a recorder call, however many steps
\* it runs (so a missing recorder is never called); when it is true every
\* step that returned is recorded.
C5_ConditionalRecording ==
    /\ fa.options.Record = (RecordRequested /\ requested.stateRecorder)
    /\ \A i \in DOMAIN inv :
          /\ ~(RecordRequested /\ requested.stateRecorder) => RecorderCalls(i) = 0
          /\ (RecordRequested /\ requested.stateRecorder /\ ~inv[i].panicking)
                => CountIn(inv[i].trace, "RecordSnapshot") = Steps(i)

\* Recording was requested but no recorder supplied: an invocation has run
\* steps to the end without a recorder call and without a panic.
C5_Witness ==
    /\ RecordRequested /\ ~requested.stateRecorder
    /\ \E i \in DOMAIN inv :
          /\ inv[i].pc = "finished" /\ ~inv[i].panicking
          /\ Steps(i) = 2 /\ RecorderCalls(i) = 0

\* The calls the loop makes, and those of them in the trace t.
LoopCalls == {"DoStep", "RecordSnapshot", "RecordStep"}
LoopEvents(t) == SelectSeq(t, LAMBDA e : e \in LoopCalls)

\* C6: with recording in effect, the loop's calls come in groups DoStep,
\* RecordSnapshot, RecordStep: every recorder call is in its place in such a
\* group, every DoStep that returned has its two recordings before the next
\* DoStep and before Done(), and at loop exit the three counts are equal.
C6_RecordingOrder ==
    fa.options.Record =>
        \A i \in DOMAIN inv :
            LET t == inv[i].trace
                e == LoopEvents(t)
            IN  /\ \A k \in DOMAIN e :
                      e[k] = CASE k % 3 = 1 -> "DoStep"
                               [] k % 3 = 2 -> "RecordSnapshot"
                               [] OTHER -> "RecordStep"
                /\ ~inv[i].panicking => Len(e) = 3 * Steps(i)
                /\ \A k \in DOMAIN t :
                      t[k] \in {"HandleResult", "Done"} =>
                          \A j \in DOMAIN t : t[j] \in LoopCalls => j < k
                /\ LoopExited(i) =>
                      /\ CountIn(t, "RecordSnapshot") = Steps(i)
                      /\ CountIn(t, "RecordStep") = Steps(i)

\* A recorded invocation of two steps has ended.
C6_Witness ==
    /\ fa.options.Record
    /\ \E i \in DOMAIN inv :
          /\ inv[i].pc = "finished"
          /\ LoopEvents(inv[i].trace) =
                <<"DoStep", "RecordSnapshot", "RecordStep",
                  "DoStep", "RecordSnapshot", "RecordStep">>

\* The identifier results the handler of invocation i has received:
\* HandleResult(200, &IDResponse{ID: id}, nil) with the identifier the
\* instance had when the task left its loop.
IDResults(i) ==
    {k \in DOMAIN handled[i] :
        handled[i][k] =
            HandleResult(IDResultCode, IDResponse(inv[i].exitID), "nil")}

\* Invocations after i that restarted i's instance (and changed its id).
RestartedAfter(i) ==
    {j \in DOMAIN inv : j > i /\ inv[j].op = AoRestart
                              /\ inv[j].instance = inv[i].instance}

\* C7: an invocation that has left its loop has delivered exactly one
\* identifier result (code 200, the instance's identifier, no error) if its
\* run options asked for returnID and none otherwise; the task delivers it
\* after its last DoStep and before Done(), and Done() is the last handler
\* call the task makes.
C7_IDResult ==
    \A i \in DOMAIN inv :
        LET t == inv[i].trace
            want == IF inv[i].returnID THEN 1 ELSE 0
        IN  /\ LoopExited(i) =>
                /\ Cardinality(IDResults(i)) = want
                /\ CountIn(t, "HandleResult") = want
                /\ \A k \in DOMAIN handled[i] :
                      handled[i][k].code = IDResultCode => k \in IDResults(i)
                /\ RestartedAfter(i) = {} =>
                      inv[i].exitID = instances[inv[i].instance].id
            /\ ~LoopExited(i) => CountIn(t, "HandleResult") = 0
            /\ \A k \in DOMAIN t : t[k] = "HandleResult" =>
                  /\ \A j \in DOMAIN t : t[j] = "DoStep" => j < k
                  /\ \A j \in DOMAIN t : t[j] = "Done" => k < j
            /\ \A k \in IDResults(i) : \A d \in DOMAIN handled[i] :
                  handled[i][d].call = "Done" => k < d
            /\ inv[i].pc = "finished" => t[Len(t)] = "Done"

\* An invocation with returnID has run a replying flow to its end: its
\* handler has the replies, then the identifier result, then Done().
C7_Witness ==
    \E i \in DOMAIN inv :
        /\ inv[i].returnID /\ inv[i].pc = "finished" /\ LoopExited(i)
        /\ Steps(i) = 2
        /\ Len(handled[i]) = 2 * RepliesPerStep + 2
        /\ IDResults(i) = {2 * RepliesPerStep + 1}
        /\ handled[i][Len(handled[i])] = HandlerDone

\* C8: Run does not block on the loop. The step in which Run returns makes
\* no DoStep, recorder or handler call: a successful Run ends with the
\* instance set up and the task started and not yet run, whatever the other
\* tasks are doing; all those calls are made by the tasks' own steps.
C8_NonBlocking ==
    [][\A i \in DOMAIN inv' : i \notin DOMAIN inv =>
          /\ inv'[i].trace = <<>>
          /\ handled'[i] = <<>>
          /\ inv'[i].stepCount = 0
          /\ \A j \in DOMAIN inv :
                inv'[j].trace = inv[j].trace /\ handled'[j] = handled[j]
          /\ inv'[i].result = "nil" =>
                /\ inv'[i].pc = "loop"
                /\ inv'[i].callerPc = "returned"
                /\ inv'[i].setup # <<>>
                /\ inv'[i].setup[Len(inv'[i].setup)] = "go"
                /\ instances'[inv'[i].instance].replyHandler = i]_vars

\* Run has returned success for an invocation that has made no step yet,
\* while the loop of an earlier invocation, which never ends, is running.
C8_Witness ==
    /\ Len(inv) = 2
    /\ inv[2].result = "nil" /\ inv[2].callerPc = "returned"
    /\ inv[2].pc = "loop" /\ Steps(2) = 0 /\ handled[2] = <<>>
    /\ inv[1].result = "nil" /\ inv[1].pc = "loop" /\ Steps(1) = MaxSteps
    /\ instances[inv[1].instance].flow.endless

\* The invocations whose step loop is running on the instance at ptr.
LoopsOn(ptr) ==
    {i \in DOMAIN inv : inv[i].instance = ptr /\ inv[i].pc = "loop"}

\* C9: in every reachable state each Instance has at most one step loop
\* running on it, whatever Start, Resume and Restart invocations are made.
C9_OneLoopPerInstance ==
    \A ptr \in DOMAIN instances : Cardinality(LoopsOn(ptr)) <= 1

\* C9, amended: an Instance has at most one step loop running on it as long
\* as no Resume or Restart was issued for it while a step loop was running
\* on it.
C9_OneLoopUnlessOverlapped ==
    \A ptr \in DOMAIN instances :
        (\A i \in DOMAIN inv : inv[i].instance = ptr => ~inv[i].overlapped)
            => Cardinality(LoopsOn(ptr)) <= 1

\* An instance is resumed after its first invocation has ended, and the
\* second loop has made a step on it.
C9_Witness ==
    /\ Len(inv) = 2
    /\ inv[2].op = AoResume /\ inv[2].instance = inv[1].instance
    /\ ~inv[2].overlapped
    /\ inv[1].pc = "finished" /\ Steps(1) >= 1
    /\ inv[2].pc = "loop" /\ Steps(2) >= 1

\* C10: a task in which DoStep or a recorder call panicked makes no further
\* loop call; it is ended only by Done(), which its handler receives
\* exactly once.
C10_DoneOnPanic ==
    \A i \in DOMAIN inv : inv[i].panicking =>
        /\ inv[i].pc \in {"deferred", "finished"}
        /\ inv[i].pc = "finished" =>
              /\ DoneCalls(i) = 1
              /\ handled[i][Len(handled[i])] = HandlerDone
        /\ inv[i].pc = "deferred" => DoneCalls(i) = 0

\* The second DoStep of a recorded invocation panicked, and the handler has
\* had its Done().
C10_Witness ==
    \E i \in DOMAIN inv :
        /\ inv[i].panicking /\ inv[i].pc = "finished"
        /\ inv[i].trace = <<"DoStep", "RecordSnapshot", "RecordStep",
                            "DoStep", "Done">>
        /\ DoneCalls(i) = 1
        /\ process = "crashed"

\* C11: a fault of DoStep or of a recorder call in a task does not end the
\* process: once the task that faulted has ended, the process is running and
\* can take further invocations.
C11_FaultTrapped ==
    \A i \in DOMAIN inv :
        (inv[i].ok /\ inv[i].panicking /\ inv[i].pc = "finished") =>
            process = "running"

\* The invocations that Run has just accepted in this step.
NewInvocations == {i \in DOMAIN inv' : i \notin DOMAIN inv /\ inv'[i].result = "nil"}

\* C12: a successful Start and a Restart give the instance the identifier the
\* generator hands out next, which is larger than, so distinct from, every
\* identifier issued before (that of every instance, the restarted one
\* included) and is not handed out again; a Resume leaves the identifier and
\* the generator as they are; no other step changes an identifier; the
\* instances' identifiers are pairwise distinct.
C12_FreshIdentifiers ==
    [][/\ \A i \in NewInvocations :
            LET p == inv'[i].instance IN
            /\ inv'[i].op \in {AoStart, AoRestart} =>
                  /\ instances'[p].id = nextID
                  /\ nextID' = nextID + 1
                  /\ \A q \in DOMAIN instances : instances[q].id < nextID
            /\ inv'[i].op = AoStart => p \notin DOMAIN instances
            /\ inv'[i].op = AoResume =>
                  /\ instances'[p].id = instances[p].id
                  /\ nextID' = nextID
            /\ \A q \in DOMAIN instances : q # p => instances'[q].id = instances[q].id
       /\ NewInvocations = {} =>
            \A q \in DOMAIN instances : instances'[q].id = instances[q].id
       /\ \A q1, q2 \in DOMAIN instances' :
            q1 # q2 => instances'[q1].id # instances'[q2].id
       /\ \A q \in DOMAIN instances' : instances'[q].id < nextID']_vars

\* An instance was started under one identifier, ran to its loop exit, and
\* was restarted under another, and the restarted loop has exited too.
C12_Witness ==
    /\ Len(inv) = 2
    /\ inv[1].op = AoStart /\ inv[2].op = AoRestart
    /\ inv[2].instance = inv[1].instance
    /\ LoopExited(1) /\ LoopExited(2)
    /\ inv[1].exitID = 1 /\ inv[2].exitID = 2
    /\ instances[inv[1].instance].id = 2

\* C13: a successful Run applies the trigger attributes once: through
\* Instance.Start and not UpdateAttrs when op is Start, through UpdateAttrs
\* and not Start when op is Resume or Restart; a Run that failed applied
\* nothing.
C13_AttrsSeedOrMerge ==
    \A i \in DOMAIN inv :
        /\ inv[i].result = "nil" =>
              /\ CountIn(inv[i].setup, "Start") =
                    (IF inv[i].op = AoStart THEN 1 ELSE 0)
              /\ CountIn(inv[i].setup, "UpdateAttrs") =
                    (IF inv[i].op \in {AoResume, AoRestart} THEN 1 ELSE 0)
        /\ inv[i].result # "nil" => inv[i].setup = <<>>
        /\ (inv[i].result = "nil" /\ inv[i].op = AoStart /\
            \A j \in DOMAIN inv : j # i => inv[j].instance # inv[i].instance)
              => \E t \in Triggers : instances[inv[i].instance].attrs = t.attrs

\* An instance started with the attributes a and b was resumed with a new
\* value of a only: a has the new value and b has kept the old one.
C13_Witness ==
    /\ Len(inv) = 2
    /\ inv[1].op = AoStart /\ inv[2].op = AoResume
    /\ inv[2].instance = inv[1].instance
    /\ inv[1].result = "nil" /\ inv[2].result = "nil"
    /\ instances[inv[1].instance].attrs = [n \in {"a", "b"} |-> IF n = "a" THEN 1 ELSE 2]

\* C14: the step bound in effect is positive: it is 65535 when no options
\* were given or the count given is zero or negative, and the count given
\* when that is 1 or more.
C14_EffectiveStepBound ==
    /\ fa.options.MaxStepCount >= 1
    /\ fa.options.MaxStepCount =
          (IF requested.options.given /\ requested.options.MaxStepCount >= 1
           THEN requested.options.MaxStepCount
           ELSE 65535)

\* A FlowAction constructed with a negative count has the bound 65535.
C14_Witness ==
    /\ requested.options.given
    /\ requested.options.MaxStepCount = -MaxCount
    /\ fa.options.MaxStepCount = DefaultMaxStepCount

Min(a, b) == IF a < b THEN a ELSE b

\* The invocations made on the instance at ptr.
InvocationsOn(ptr) == {j \in DOMAIN inv : inv[j].instance = ptr}

\* The task of invocation i has left its loop (and may have ended).
PastLoop(i) == inv[i].pc \in {"deferred", "finished"}

\* C15: a Start of a flow that needs K steps, under the bound N in effect,
\* never makes more than min(K, N) calls of DoStep and has made exactly
\* min(K, N) when its loop has exited: the last DoStep reported no more work
\* if K <= N and more work if K > N, the status of the instance is then
\* Completed if K <= N and below it if K > N, and the handler gets one Done().
\* (No Resume or Restart is issued for the instance while the loop runs.)
C15_ExactStepCount ==
    \A i \in DOMAIN inv :
        LET p == inv[i].instance IN
        (/\ inv[i].op = AoStart /\ inv[i].result = "nil"
         /\ ~instances[p].flow.endless
         /\ \A j \in InvocationsOn(p) : ~inv[j].overlapped) =>
            LET K == instances[p].flow.steps
                N == fa.options.MaxStepCount
            IN  /\ Steps(i) <= Min(K, N)
                /\ PastLoop(i) =>
                      /\ Steps(i) = Min(K, N)
                      /\ inv[i].hasWork = (K > N)
                      /\ InvocationsOn(p) = {i} =>
                            (instances[p].status >= StatusCompleted) = (K <= N)
                /\ inv[i].pc = "finished" => DoneCalls(i) = 1

\* A flow of FlowSteps steps was started under a bound of one step: the
\* task has ended after one DoStep, the status is not terminal, Done() came.
C15_Witness ==
    /\ fa.options.MaxStepCount = 1 /\ FlowSteps > 1
    /\ \E i \in DOMAIN inv :
          /\ inv[i].op = AoStart /\ inv[i].pc = "finished"
          /\ InvocationsOn(inv[i].instance) = {i}
          /\ instances[inv[i].instance].flow.steps = FlowSteps
          /\ Steps(i) = 1
          /\ instances[inv[i].instance].status < StatusCompleted
          /\ DoneCalls(i) = 1

\* The DoStep calls made on the instance at ptr by the first n invocations.
RECURSIVE SumSteps(_, _)
SumSteps(ptr, n) ==
    IF n = 0 THEN 0
    ELSE (IF inv[n].instance = ptr THEN Steps(n) ELSE 0) + SumSteps(ptr, n - 1)

\* C16: for an instance of a flow that needs K steps, started and then only
\* resumed, each Resume after the invocation before it has left its loop:
\* the instance keeps its state between the invocations (the steps made on
\* it so far and the steps it still needs add up to K, and its status is
\* Completed exactly when none is left), and every invocation has a budget
\* of its own: its loop exits only after N steps of that invocation, or when
\* the instance has no more work or is Completed. So K steps in all complete
\* the instance.
C16_ResumableSuspension ==
    \A p \in DOMAIN instances :
        (/\ ~instances[p].flow.endless
         /\ \A j \in InvocationsOn(p) :
                ~inv[j].overlapped /\ inv[j].op # AoRestart) =>
            /\ SumSteps(p, Len(inv)) + instances[p].remaining =
                  instances[p].flow.steps
            /\ (instances[p].status >= StatusCompleted) =
                  (instances[p].remaining = 0)
            /\ \A i \in InvocationsOn(p) :
                  /\ Steps(i) <= fa.options.MaxStepCount
                  /\ PastLoop(i) =>
                        \/ Steps(i) = fa.options.MaxStepCount
                        \/ ~inv[i].hasWork
                        \/ instances[p].status >= StatusCompleted

\* Under a bound of one step a flow of two steps was started, suspended
\* with its status not terminal, and resumed after the first task had ended:
\* the second invocation made the second step and the instance is Completed.
C16_Witness ==
    /\ fa.options.MaxStepCount = 1
    /\ Len(inv) = 2
    /\ inv[1].op = AoStart /\ inv[2].op = AoResume
    /\ inv[2].instance = inv[1].instance /\ ~inv[2].overlapped
    /\ inv[1].pc = "finished" /\ inv[1].hasWork /\ Steps(1) = 1
    /\ inv[2].pc = "finished" /\ ~inv[2].hasWork /\ Steps(2) = 1
    /\ instances[inv[1].instance].flow.steps = 2
    /\ instances[inv[1].instance].status = StatusCompleted

\* The calls Run makes, in order, on its way to a successful return.
SetupCalls(op, execOptions) ==
    (CASE op = AoStart -> <<"NewFlowInstance">>
       [] op = AoResume -> <<"InitialState">>
       [] op = AoRestart -> <<"InitialState", "Restart">>)
    \o (IF execOptions THEN <<"applyExecOptions">> ELSE <<>>)
    \o <<IF op = AoStart THEN "Start" ELSE "UpdateAttrs">>
    \o <<"SetReplyHandler", "go">>

\* C17: a successful Run makes its calls in one order: the instance is
\* acquired (constructed for Start, taken from the options for Resume, taken
\* and restarted for Restart), then the exec options are applied if and only
\* if the run options carry them, whatever the op, then the attributes are
\* seeded or merged, then the reply handler is set, then the task is spawned;
\* every DoStep of the invocation comes after all of them.
C17_SetupOrder ==
    \A i \in DOMAIN inv :
        /\ inv[i].result = "nil" =>
              inv[i].setup = SetupCalls(inv[i].op, inv[i].execOptions)
        /\ Steps(i) > 0 =>
              /\ inv[i].setup # <<>>
              /\ inv[i].setup[Len(inv[i].setup)] = "go"

\* A Restart with exec options has made its six calls in order and its task
\* has stepped the instance, which has the exec options and the handler.
C17_Witness ==
    \E i \in DOMAIN inv :
        /\ inv[i].op = AoRestart /\ inv[i].execOptions
        /\ inv[i].setup = <<"InitialState", "Restart", "applyExecOptions",
                            "UpdateAttrs", "SetReplyHandler", "go">>
        /\ Steps(i) >= 1
        /\ instances[inv[i].instance].execOptions
        /\ instances[inv[i].instance].replyHandler = i

\* The replies each step of a replying flow issues, as the instance
\* passes them to Reply.
RepliesIssued ==
    [k \in 1..RepliesPerStep |->
        [code |-> ReplyCode, data |-> [ID |-> 0, reply |-> k], err |-> "nil"]]

\* The successful invocations on the instance at ptr.
RunsOn(ptr) == {j \in DOMAIN inv : inv[j].instance = ptr /\ inv[j].result = "nil"}

C19_AbsentOptions ==
    \A i \in DOMAIN inv :
        (~inv[i].ok /\ inv[i].result = "nil" /\
         ~instances[inv[i].instance].flow.faulty) =>
            /\ inv[i].op = AoStart /\ ~inv[i].returnID
            /\ ~inv[i].panicking
            /\ CountIn(inv[i].trace, "HandleResult") = 0
            /\ inv[i].pc = "finished" => DoneCalls(i) = 1

\* C20: a Resume of an instance that an earlier invocation left Completed
\* (its last DoStep reported no more work), issued when no loop runs on the
\* instance, makes no DoStep and no recorder call and leaves the status
\* Completed; when its task has ended the handler has received the
\* identifier result, if returnID was asked for, and then Done(), and
\* nothing else.
C20_ResumeCompleted ==
    \A i \in DOMAIN inv :
        LET p == inv[i].instance IN
        (/\ inv[i].op = AoResume /\ inv[i].result = "nil"
         /\ ~inv[i].overlapped
         /\ \A j \in InvocationsOn(p) : inv[j].op # AoRestart
         /\ \E j \in InvocationsOn(p) : j < i /\ ~inv[j].hasWork) =>
            /\ Steps(i) = 0
            /\ RecorderCalls(i) = 0
            /\ ~inv[i].panicking
            /\ instances[p].status = StatusCompleted
            /\ inv[i].pc = "finished" =>
                  handled[i] =
                      (IF inv[i].returnID
                       THEN <<HandleResult(IDResultCode,
                                           IDResponse(instances[p].id), "nil")>>
                       ELSE <<>>) \o <<HandlerDone>>

\* A flow was run to completion by a Start; a Resume with returnID of the
\* Completed instance has ended with no step, the identifier result and
\* Done().
C20_Witness ==
    /\ Len(inv) = 2
    /\ inv[1].op = AoStart /\ inv[1].pc = "finished" /\ ~inv[1].hasWork
    /\ inv[2].op = AoResume /\ inv[2].instance = inv[1].instance
    /\ ~inv[2].overlapped /\ inv[2].returnID
    /\ inv[2].pc = "finished" /\ Steps(2) = 0
    /\ fa.options.Record
    /\ instances[inv[1].instance].status = StatusCompleted
    /\ Len(handled[2]) = 2

====
